---------------------------- MODULE Spec2Model ----------------------------
(***************************************************************************)
(* The scoring pipeline of conversation-rewards: DataPurgeModule.transform *)
(* (src/src/parser/data-purge-module.ts) followed by                       *)
(* ContentEvaluatorModule.transform                                        *)
(* (src/src/parser/content-evaluator-module.ts).                           *)
(*                                                                         *)
(* Representation.                                                         *)
(*  - An optional JavaScript value (undefined / absent or present) is a    *)
(*    sequence of length 0 or 1: None == <<>>, Some(x) == <<x>>.           *)
(*  - A string that the code inspects character by character (a comment    *)
(*    body, a purged content) is a sequence of one-character strings.      *)
(*  - A CommentType name such as "ISSUE_ASSIGNEE" is the sequence of its   *)
(*    tokens <<"ISSUE", "_", "ASSIGNEE">>.                                  *)
(*  - A decimal number is an integer count of sixteenths (Decimal(q) takes *)
(*    a number of quarters): every value of the model is a multiple of a   *)
(*    quarter, so products of two of them are exact in sixteenths, as      *)
(*    decimal.js is exact on them.                                         *)
(***************************************************************************)
EXTENDS Integers, Sequences, FiniteSets, TLC

VARIABLES
  data,               \* the IssueActivity snapshot: [self, allComments]
  multipliers,        \* _configuration.multipliers
  fixedRelevances,    \* ContentEvaluatorModule._fixedRelevances
  result,             \* the shared Result: login -> [comments]
  result0,            \* history: result when the pipeline started
  preEval,            \* history: result when ContentEvaluatorModule.transform started
  pc,                 \* position of the pipeline run
  task,               \* per contributor: state of its _processComment promise
  requests,           \* per contributor: the request in flight to the service
  responses,          \* history: per contributor, the mapping the service returned
  commentsWithScore,  \* per contributor: the local array of _processComment
  mismatch,           \* per contributor: console.error("Relevance / Comment length mismatch!")
  mulCount            \* history: per contributor and comment, reward multiplications done

vars == <<data, multipliers, fixedRelevances, result, result0, preEval, pc, task,
          requests, responses, commentsWithScore, mismatch, mulCount>>

----------------------------------------------------------------------------
(* Bounds *)

\* Raw comments in the snapshot of a pipeline run.
MaxRaw == 1

\* Raw comments in the snapshot of a purge-only run.
MaxSnap == 3

----------------------------------------------------------------------------
(* Optional values, numbers *)

None == <<>>

Some(x) == <<x>>

IsSome(o) == Len(o) > 0

Get(o) == o[1]

\* new Decimal(n) for n given in quarters.
Decimal(quarters) == 4 * quarters

\* Decimal.mul: the exact product of two decimals.
DecimalMul(a, b) == (a * b) \div 16

RECURSIVE BitOr(_, _)
\* The bitwise | of two non-negative integers.
BitOr(a, b) ==
  IF a = 0 THEN b
  ELSE IF b = 0 THEN a
  ELSE (IF (a % 2) + (b % 2) > 0 THEN 1 ELSE 0) + 2 * BitOr(a \div 2, b \div 2)

----------------------------------------------------------------------------
(* Comment bodies and DataPurgeModule's replacements *)

LF == "\n"

\* JavaScript's `.` matches any character but a line terminator.
IsLineTerminator(ch) == ch = LF

RECURSIVE RemoveQuotedLines(_, _)
\* body.replace(/^>.*$/gm, ""): with the m flag ^ matches at every line start;
\* `atLineStart` tells whether position 1 of s starts a line. The line's
\* characters go, its terminator stays.
RemoveQuotedLines(s, atLineStart) ==
  IF s = <<>> THEN <<>>
  ELSE IF atLineStart /\ Head(s) = ">"
    THEN LET RECURSIVE SkipLine(_)
             SkipLine(t) == IF t = <<>> \/ IsLineTerminator(Head(t)) THEN t
                            ELSE SkipLine(Tail(t))
         IN RemoveQuotedLines(SkipLine(s), FALSE)
    ELSE <<Head(s)>> \o RemoveQuotedLines(Tail(s), IsLineTerminator(Head(s)))

RECURSIVE DropToLineEnd(_)
\* The rest of s from its first line terminator on.
DropToLineEnd(s) ==
  IF s = <<>> \/ IsLineTerminator(Head(s)) THEN s ELSE DropToLineEnd(Tail(s))

\* .replace(/^\/.+/g, ""): without the m flag ^ matches at index 0 only, and
\* .+ needs one character that is no line terminator after the slash.
RemoveCommands(s) ==
  IF Len(s) >= 2 /\ s[1] = "/" /\ ~IsLineTerminator(s[2])
  THEN DropToLineEnd(Tail(s))
  ELSE s

RECURSIVE SingleLine(_)
\* .replace(/[\r\n]+/g, " "): each run of line breaks becomes one space.
SingleLine(s) ==
  IF s = <<>> THEN <<>>
  ELSE IF IsLineTerminator(Head(s))
    THEN LET RECURSIVE SkipBreaks(_)
             SkipBreaks(t) == IF t # <<>> /\ IsLineTerminator(Head(t))
                              THEN SkipBreaks(Tail(t)) ELSE t
         IN <<" ">> \o SingleLine(SkipBreaks(s))
    ELSE <<Head(s)>> \o SingleLine(Tail(s))

IsWhiteSpace(ch) == ch = " " \/ ch = LF

RECURSIVE TrimStart(_)
TrimStart(s) ==
  IF s # <<>> /\ IsWhiteSpace(Head(s)) THEN TrimStart(Tail(s)) ELSE s

RECURSIVE TrimEnd(_)
TrimEnd(s) ==
  IF s # <<>> /\ IsWhiteSpace(s[Len(s)]) THEN TrimEnd(SubSeq(s, 1, Len(s) - 1)) ELSE s

\* String.prototype.trim
Trim(s) == TrimEnd(TrimStart(s))

\* newContent of DataPurgeModule.transform.
NewContent(body) == Trim(SingleLine(RemoveCommands(RemoveQuotedLines(body, TRUE))))

----------------------------------------------------------------------------
(* Role Encoder and the FixedRelevanceTable *)

\* The atomic role names and their bits (configuration/comment-types).
commentEnum == [REVIEW |-> 1, ISSUE |-> 2, ASSIGNEE |-> 4]

\* key.split("_") on a name given as its tokens, atomic names alternating with
\* the separator: the atomic names, in order.
Split(key) == SelectSeq(key, LAMBDA token : token # "_")

\* Number(commentEnum[value]): NaN (None) for a name the enum does not have.
EnumNumber(value) ==
  IF value \in DOMAIN commentEnum THEN Some(commentEnum[value]) ELSE None

\* The int32 conversion `|` applies to its operands: NaN becomes 0.
ToInt32(n) == IF IsSome(n) THEN Get(n) ELSE 0

RECURSIVE OrAll(_, _)
\* forEach((value) => res |= Number(commentEnum[value])), from res.
OrAll(values, res) ==
  IF values = <<>> THEN res
  ELSE OrAll(Tail(values), BitOr(res, ToInt32(EnumNumber(Head(values)))))

\* ContentEvaluatorModule._getEnumValue
GetEnumValue(key) == OrAll(Split(key), 0)

RECURSIVE RoleKey(_, _)
\* curr.role.reduce((a, b) => this._getEnumValue(b) | a, 0)
RoleKey(role, a) ==
  IF role = <<>> THEN a ELSE RoleKey(Tail(role), BitOr(GetEnumValue(Head(role)), a))

RECURSIVE BuildFixedRelevances(_, _)
\* The constructor's reduce over the configured multipliers: a later entry
\* with the same key replaces an earlier one.
BuildFixedRelevances(ms, acc) ==
  IF ms = <<>> THEN acc
  ELSE LET key == RoleKey(Head(ms).role, 0)
       IN BuildFixedRelevances(Tail(ms),
            [k \in DOMAIN acc \cup {key} |->
               IF k = key THEN Head(ms).relevance ELSE acc[k]])

\* this._fixedRelevances[type]: undefined (None) for a key the table lacks.
FixedRelevance(type) ==
  IF type \in DOMAIN fixedRelevances THEN Some(fixedRelevances[type]) ELSE None

\* JavaScript truthiness of a number or undefined: undefined and 0 are falsy.
Truthy(n) == IsSome(n) /\ Get(n) # 0

\* The condition of lines 94 and 115: the comment has a fixed relevance.
HasFixedRelevance(type) == Truthy(FixedRelevance(type))

----------------------------------------------------------------------------
(* The inputs of a run *)

Contributors == {"alice", "bob"}

\* Roles of comments as the snapshot tags them: ISSUE | ASSIGNEE, and REVIEW.
IssueAssignee == BitOr(commentEnum.ISSUE, commentEnum.ASSIGNEE)

Review == commentEnum.REVIEW

\* Raw comments as the snapshot may hold them, before ids are given.
RawPool ==
  { [user |-> Some("alice"), body |-> Some(<<"a">>), type |-> Review],
    [user |-> Some("alice"), body |-> Some(<<">", "a", LF, "/", "a">>), type |-> IssueAssignee],
    [user |-> Some("alice"), body |-> Some(<<"a", LF, "/", "a">>), type |-> Review],
    [user |-> Some("alice"), body |-> None, type |-> Review],
    [user |-> Some("bob"), body |-> Some(<<"/", "a", LF, "a", LF, LF, ">", "a">>), type |-> IssueAssignee],
    [user |-> Some("bob"), body |-> Some(<<"/", "a">>), type |-> Review],
    [user |-> Some("eve"), body |-> Some(<<"a">>), type |-> Review],
    [user |-> None, body |-> Some(<<"a">>), type |-> Review] }

\* The id of the raw comment at position i: unique and stable.
RawId(i) == 10 + i

\* The snapshot's comments: a sequence over RawPool, each with its id and url.
AllCommentsOf(seq) ==
  [i \in 1..Len(seq) |->
     [id |-> RawId(i), user |-> seq[i].user, body |-> seq[i].body,
      html_url |-> <<"url", RawId(i)>>, type |-> seq[i].type]]

SnapshotsUpTo(n) ==
  UNION { { AllCommentsOf(seq) : seq \in [1..k -> RawPool] } : k \in 0..n }

\* data.self?.body: the specification text, absent, or empty.
SpecificationBodies == {Some("specification"), Some(""), None}

\* A comment an earlier stage left in result, with its reward.
Scored(id, type, rewardQuarters) ==
  [id |-> Some(id), content |-> <<"a">>, url |-> <<"url", id>>, type |-> type,
   score |-> Some([reward |-> Decimal(rewardQuarters), relevance |-> None])]

\* result as the pipeline may receive it: every contributor with no comment,
\* or alice with a reward of 4 and one of 2 (scenario B) and bob with one of 2.
InitialResults ==
  { [c \in Contributors |-> [comments |-> <<>>]],
    [c \in Contributors |->
       [comments |-> IF c = "alice"
                     THEN <<Scored(1, IssueAssignee, 16), Scored(2, Review, 8)>>
                     ELSE <<Scored(3, IssueAssignee, 8)>>]] }

\* _configuration.multipliers: none; ISSUE_ASSIGNEE at 0.5; ISSUE_ASSIGNEE at 0;
\* and two entries of the same key, the first from two names one of which
\* holds an unknown atomic role.
Configurations ==
  { <<>>,
    << [role |-> << <<"ISSUE", "_", "ASSIGNEE">> >>, relevance |-> Decimal(2)] >>,
    << [role |-> << <<"ISSUE", "_", "ASSIGNEE">> >>, relevance |-> Decimal(0)] >>,
    << [role |-> << <<"ISSUE">>, <<"BOGUS", "_", "ASSIGNEE">> >>, relevance |-> Decimal(8)],
       [role |-> << <<"ASSIGNEE", "_", "ISSUE">> >>, relevance |-> Decimal(1)] >> }

----------------------------------------------------------------------------
(* State *)

NoTasks == [c \in Contributors |-> "none"]

InitWith(snapshots, specs, configs, results) ==
  /\ data \in { [self |-> [body |-> b], allComments |-> a] : b \in specs, a \in snapshots }
  /\ multipliers \in configs
  /\ fixedRelevances = BuildFixedRelevances(multipliers, <<>>)
  /\ result \in results
  /\ result0 = result
  /\ preEval = result
  /\ pc = "start"
  /\ task = NoTasks
  /\ requests = [c \in Contributors |-> None]
  /\ responses = [c \in Contributors |-> None]
  /\ commentsWithScore = [c \in Contributors |-> <<>>]
  /\ mismatch = [c \in Contributors |-> FALSE]
  /\ mulCount = [c \in Contributors |-> <<>>]

Init == InitWith(SnapshotsUpTo(MaxRaw), SpecificationBodies, Configurations, InitialResults)

----------------------------------------------------------------------------
(* DataPurgeModule.transform *)

\* Line 23: the comment has a body, an author with a login, and the login is
\* a key of result. An empty body is falsy.
Kept(comment, res) ==
  /\ IsSome(comment.body) /\ Get(comment.body) # <<>>
  /\ IsSome(comment.user)
  /\ Get(comment.user) \in DOMAIN res

\* Lines 33-40: the record appended for a comment whose newContent is not empty.
PurgedComment(comment) ==
  [id |-> None, content |-> NewContent(Get(comment.body)), url |-> comment.html_url,
   type |-> comment.type, score |-> None]

RECURSIVE PurgeLoopPrepend(_, _)
\* PurgeLoop putting each new record before the contributor's comments.
PurgeLoopPrepend(comments, res) ==
  IF comments = <<>> THEN res
  ELSE LET comment == Head(comments)
       IN IF Kept(comment, res) /\ NewContent(Get(comment.body)) # <<>>
          THEN PurgeLoopPrepend(Tail(comments),
                 [res EXCEPT ![Get(comment.user)].comments = <<PurgedComment(comment)>> \o @])
          ELSE PurgeLoopPrepend(Tail(comments), res)

RECURSIVE PurgeLoop(_, _)
\* The for loop of lines 22-43 over the comments left, from result res.
PurgeLoop(comments, res) ==
  IF comments = <<>> THEN res
  ELSE LET comment == Head(comments)
       IN IF Kept(comment, res) /\ NewContent(Get(comment.body)) # <<>>
          THEN PurgeLoop(Tail(comments),
                 [res EXCEPT ![Get(comment.user)].comments = @ \o <<PurgedComment(comment)>>])
          ELSE PurgeLoop(Tail(comments), res)

Purge ==
  /\ pc = "start"
  /\ result' = PurgeLoop(data.allComments, result)
  /\ pc' = "purged"
  /\ UNCHANGED <<data, multipliers, fixedRelevances, result0, preEval, task, requests,
                 responses, commentsWithScore, mismatch, mulCount>>

InitPurge == InitWith(SnapshotsUpTo(MaxSnap), {Some("specification")}, {<<>>}, InitialResults)

NextPurge == Purge

SpecPurge == InitPurge /\ [][NextPurge]_vars

----------------------------------------------------------------------------
(* ContentEvaluatorModule.transform *)

\* Lines 58-64: the corpus sent with every request, one entry per snapshot
\* comment that has a user; `commentObj.body || ""`.
AllComments ==
  LET withUser == SelectSeq(data.allComments, LAMBDA commentObj : IsSome(commentObj.user))
  IN [i \in 1..Len(withUser) |->
        [id |-> withUser[i].id,
         comment |-> IF IsSome(withUser[i].body) THEN Get(withUser[i].body) ELSE <<>>,
         author |-> Get(withUser[i].user)]]

\* Line 70: `specificationBody && comments.length`.
Starts(c) ==
  /\ IsSome(data.self.body) /\ Get(data.self.body) # ""
  /\ Len(result[c].comments) > 0

\* Lines 91-101: the comments without a fixed relevance, as sent to the service.
CommentsToEvaluate(comments, author) ==
  LET open == SelectSeq(comments, LAMBDA currentComment : ~HasFixedRelevance(currentComment.type))
  IN [i \in 1..Len(open) |->
        [id |-> open[i].id, comment |-> open[i].content, author |-> author]]

\* Lines 66-77 and, for each task started, _processComment up to its await
\* (lines 89-105) with _evaluateComments up to the service call (152-169).
EvalStart ==
  /\ pc = "purged"
  /\ pc' = "awaiting"
  /\ preEval' = result
  /\ task' = [c \in Contributors |-> IF Starts(c) THEN "awaiting" ELSE "none"]
  /\ commentsWithScore' = [c \in Contributors |-> IF Starts(c) THEN result[c].comments ELSE <<>>]
  /\ requests' = [c \in Contributors |->
       IF Starts(c) /\ CommentsToEvaluate(result[c].comments, c) # <<>>
       THEN Some([specification |-> Get(data.self.body),
                  comments |-> CommentsToEvaluate(result[c].comments, c),
                  allComments |-> AllComments])
       ELSE None]
  /\ mulCount' = [c \in Contributors |-> [i \in 1..Len(result[c].comments) |-> 0]]
  /\ UNCHANGED <<data, multipliers, fixedRelevances, result, result0, responses, mismatch>>

\* relevancesByAI[currentComment.id]: undefined (None) when the mapping has
\* no such key; a comment without an id reads the key "undefined".
RelevanceByAI(relevancesByAI, id) ==
  IF IsSome(id) /\ Get(id) \in DOMAIN relevancesByAI
  THEN Some(relevancesByAI[Get(id)]) ELSE None

\* CurrentRelevance with 0 as the relevance of a comment the service missed.
CurrentRelevanceDefaultZero(currentComment, relevancesByAI) ==
  IF HasFixedRelevance(currentComment.type)
  THEN Get(FixedRelevance(currentComment.type))
  ELSE IF IsSome(RelevanceByAI(relevancesByAI, currentComment.id))
  THEN Get(RelevanceByAI(relevancesByAI, currentComment.id))
  ELSE Decimal(0)

\* Lines 113-119.
CurrentRelevance(currentComment, relevancesByAI) ==
  IF HasFixedRelevance(currentComment.type)
  THEN Get(FixedRelevance(currentComment.type))
  ELSE IF IsSome(RelevanceByAI(relevancesByAI, currentComment.id))
  THEN Get(RelevanceByAI(relevancesByAI, currentComment.id))
  ELSE Decimal(4)

\* Line 121: `currentComment.score?.reward || 0`.
CurrentReward(currentComment) ==
  IF IsSome(currentComment.score) THEN Get(currentComment.score).reward ELSE Decimal(0)

\* WithScore with the relevance folded into the reward a second time.
WithScoreTwice(currentComment, relevancesByAI) ==
  [currentComment EXCEPT !.score =
     Some([reward |-> DecimalMul(DecimalMul(CurrentReward(currentComment),
                                            CurrentRelevance(currentComment, relevancesByAI)),
                                 CurrentRelevance(currentComment, relevancesByAI)),
           relevance |-> Some(CurrentRelevance(currentComment, relevancesByAI))])]

\* Lines 122-126: the comment with its new score.
WithScore(currentComment, relevancesByAI) ==
  [currentComment EXCEPT !.score =
     Some([reward |-> DecimalMul(CurrentReward(currentComment),
                                 CurrentRelevance(currentComment, relevancesByAI)),
           relevance |-> Some(CurrentRelevance(currentComment, relevancesByAI))])]

\* The loop of lines 111-127 over the task's array.
ScoreAll(comments, relevancesByAI) ==
  [i \in 1..Len(comments) |-> WithScore(comments[i], relevancesByAI)]

\* Line 107: the number of keys returned is not the number of comments sent.
Mismatch(relevancesByAI, commentsToEvaluate) ==
  Cardinality(DOMAIN relevancesByAI) # Len(commentsToEvaluate)

\* _processComment from its await to its return (lines 103-129). The loop
\* assigns the score of objects that result's array shares with the task's.
Resume(c, relevancesByAI) ==
  /\ commentsWithScore' =
       [commentsWithScore EXCEPT ![c] = ScoreAll(commentsWithScore[c], relevancesByAI)]
  /\ result' = [result EXCEPT ![c].comments =
       [i \in 1..Len(@) |->
          IF i <= Len(commentsWithScore[c])
          THEN [@[i] EXCEPT !.score = WithScore(commentsWithScore[c][i], relevancesByAI).score]
          ELSE @[i]]]
  /\ mismatch' = [mismatch EXCEPT ![c] =
       Mismatch(relevancesByAI, CommentsToEvaluate(commentsWithScore[c], c))]
  /\ mulCount' = [mulCount EXCEPT ![c] = [i \in 1..Len(@) |-> @[i] + 1]]
  /\ task' = [task EXCEPT ![c] = "scored"]

\* Relevance values the service may return: 0 and 0.25.
ServiceScores == {Decimal(0), Decimal(1)}

\* Ids the service may answer under: those of the comments sent, those of the
\* contributor's other comments, and those the corpus gives the contributor.
ServiceKeys(c) ==
  {Get(commentsWithScore[c][i].id) :
     i \in {j \in 1..Len(commentsWithScore[c]) : IsSome(commentsWithScore[c][j].id)}}
  \cup {AllComments[i].id : i \in {j \in 1..Len(AllComments) : AllComments[j].author = c}}

\* Every mapping that decodes: some of the ids, each with a score.
ServiceResponses(c) ==
  UNION { [keys -> ServiceScores] : keys \in SUBSET ServiceKeys(c) }

\* The service call of line 155 resolves with content that parses and decodes
\* (lines 171-179), and _processComment resumes.
ServiceRespond(c) ==
  /\ task[c] = "awaiting"
  /\ IsSome(requests[c])
  /\ \E relevancesByAI \in ServiceResponses(c) :
       /\ Resume(c, relevancesByAI)
       /\ responses' = [responses EXCEPT ![c] = Some(relevancesByAI)]
  /\ UNCHANGED <<data, multipliers, fixedRelevances, result0, preEval, pc, requests>>

\* Nothing to evaluate: `await {}` of line 105 resumes with no relevances.
NoEvaluation(c) ==
  /\ task[c] = "awaiting"
  /\ requests[c] = None
  /\ Resume(c, <<>>)
  /\ UNCHANGED <<data, multipliers, fixedRelevances, result0, preEval, pc, requests, responses>>

\* How _evaluateComments fails: the call of line 155 rejects, JSON.parse of
\* line 174 throws, Value.Decode of line 177 throws (rethrown at line 182).
Failures == {"failed: service call", "failed: JSON.parse", "failed: Value.Decode"}

\* _evaluateComments rejects, and with it the await of line 104.
ServiceFail(c) ==
  /\ task[c] = "awaiting"
  /\ IsSome(requests[c])
  /\ \E failure \in Failures : task' = [task EXCEPT ![c] = failure]
  /\ UNCHANGED <<data, multipliers, fixedRelevances, result, result0, preEval, pc, requests,
                 responses, commentsWithScore, mismatch, mulCount>>

\* Line 73: the callback chained on a task that returned.
TaskThen(c) ==
  /\ task[c] = "scored"
  /\ result' = [result EXCEPT ![c].comments = commentsWithScore[c]]
  /\ task' = [task EXCEPT ![c] = "assigned"]
  /\ UNCHANGED <<data, multipliers, fixedRelevances, result0, preEval, pc, requests,
                 responses, commentsWithScore, mismatch, mulCount>>

\* AllFulfilled as Promise.allSettled would have it: a rejection counts.
AllSettled ==
  \A c \in Contributors : task[c] \in {"none", "assigned"} \cup
    {"failed: service call", "failed: JSON.parse", "failed: Value.Decode"}

\* AllFulfilled as Promise.any would have it: one fulfilment is enough.
AnyFulfilled ==
  \/ \A c \in Contributors : task[c] = "none"
  \/ \E c \in Contributors : task[c] = "assigned"

\* Promise.all(promises) of line 79 fulfils: every promise pushed has.
AllFulfilled == \A c \in Contributors : task[c] \in {"none", "assigned"}

\* Promise.all(promises) of line 79 rejects: one promise pushed has.
SomeRejected == \E c \in Contributors : task[c] \in Failures

\* Lines 79-80: the await ends and transform returns result.
TransformReturn ==
  /\ pc = "awaiting"
  /\ AllFulfilled
  /\ pc' = "returned"
  /\ UNCHANGED <<data, multipliers, fixedRelevances, result, result0, preEval, task, requests,
                 responses, commentsWithScore, mismatch, mulCount>>

\* Line 79: the await throws and transform rejects; the other tasks go on.
TransformReject ==
  /\ pc = "awaiting"
  /\ SomeRejected
  /\ pc' = "rejected"
  /\ UNCHANGED <<data, multipliers, fixedRelevances, result, result0, preEval, task, requests,
                 responses, commentsWithScore, mismatch, mulCount>>

Next ==
  \/ Purge
  \/ EvalStart
  \/ \E c \in Contributors : ServiceRespond(c)
  \/ \E c \in Contributors : NoEvaluation(c)
  \/ \E c \in Contributors : ServiceFail(c)
  \/ \E c \in Contributors : TaskThen(c)
  \/ TransformReturn
  \/ TransformReject

Spec == Init /\ [][Next]_vars

----------------------------------------------------------------------------
(* Properties *)

Indices(seq) == 1..Len(seq)

\* The task of contributor c has run its scoring loop.
HasScored(c) == task[c] \in {"scored", "assigned"}

\* The task of contributor c was started by transform.
WasStarted(c) == task[c] # "none"

\* The contributor's comments whose role is a key of the fixed table.
FixedByKey(c) == {i \in Indices(preEval[c].comments) :
                    preEval[c].comments[i].type \in DOMAIN fixedRelevances}

\* The texts a contributor's request holds under commentsToEvaluate.
SentComments(c) == {Get(requests[c]).comments[k] : k \in Indices(Get(requests[c]).comments)}

\* C1: a comment whose role bitmask is a key of the fixed table, whatever the
\* configured value, is not among the comments sent to the service, and its
\* final relevance is the configured value whatever the service returns.
FixedRelevanceIsFinal ==
  \A c \in Contributors : \A i \in FixedByKey(c) :
    /\ WasStarted(c) /\ IsSome(requests[c]) =>
         Len(Get(requests[c]).comments) <= Len(preEval[c].comments) - Cardinality(FixedByKey(c))
    /\ HasScored(c) =>
         Get(result[c].comments[i].score).relevance =
           Some(fixedRelevances[preEval[c].comments[i].type])

\* The reward a comment had when the evaluation started: 0 without a score.
PreEvaluationReward(c, i) ==
  IF preEval[c].comments[i].score = None THEN 0
  ELSE Get(preEval[c].comments[i].score).reward

\* The specification text is there and not empty.
HasSpecification == data.self.body # None /\ data.self.body # Some("")

\* C2: after transform returned, every comment of every contributor that had
\* comments has a relevance, its reward is its pre-evaluation reward times
\* that relevance, and the multiplication was done exactly once.
RewardScaledOnce ==
  pc = "returned" /\ HasSpecification =>
    \A c \in Contributors :
      /\ Len(result[c].comments) = Len(preEval[c].comments)
      /\ \A i \in Indices(preEval[c].comments) :
           LET score == result[c].comments[i].score
           IN /\ score # None
              /\ Get(score).relevance # None
              /\ Get(score).reward * 16 = PreEvaluationReward(c, i) * Get(Get(score).relevance)
              /\ mulCount[c][i] = 1

\* C2's case: both contributors were scored, in a run that returned, and a
\* reward was changed to a value other than 0.
RewardScaledOnceWitness ==
  /\ pc = "returned"
  /\ \A c \in Contributors : task[c] = "assigned" /\ responses[c] # None
  /\ \E c \in Contributors : \E i \in Indices(preEval[c].comments) :
       /\ Get(result[c].comments[i].score).reward # 0
       /\ Get(result[c].comments[i].score).reward # PreEvaluationReward(c, i)

\* C3: when a contributor's evaluation failed, transform does not return, and
\* the contributor's record is as it was before the call.
FailedBatchUntouched ==
  \A c \in Contributors :
    task[c] \in Failures => pc # "returned" /\ result[c] = preEval[c]

\* C3's case: transform rejected on a contributor whose batch holds a comment
\* of fixed relevance and one that was sent, after the other one was scored.
FailedBatchUntouchedWitness ==
  /\ pc = "rejected"
  /\ \E c \in Contributors :
       /\ task[c] = "failed: Value.Decode"
       /\ \E i, j \in Indices(preEval[c].comments) :
            /\ HasFixedRelevance(preEval[c].comments[i].type)
            /\ ~HasFixedRelevance(preEval[c].comments[j].type)
       /\ \E d \in Contributors \ {c} : task[d] = "assigned" /\ result[d] # preEval[d]

\* The comments of contributor c that were sent to the service.
Requested(c) == {i \in Indices(preEval[c].comments) :
                   ~HasFixedRelevance(preEval[c].comments[i].type)}

\* The service answered contributor c with fewer entries than comments sent.
FewerReturned(c) ==
  /\ requests[c] # None
  /\ responses[c] # None
  /\ Cardinality(DOMAIN Get(responses[c])) < Len(Get(requests[c]).comments)

\* The id of comment i of contributor c is a key of what the service returned.
Returned(c, i) ==
  /\ preEval[c].comments[i].id # None
  /\ Get(preEval[c].comments[i].id) \in DOMAIN Get(responses[c])

\* C4: a mapping with fewer entries than comments requested does not fail the
\* task, a mismatch is reported, a requested comment whose id is missing gets
\* relevance 1 and keeps its reward, and one whose id is there gets its score.
MissingIdsDefaultToOne ==
  \A c \in Contributors :
    FewerReturned(c) =>
      /\ HasScored(c)
      /\ mismatch[c]
      /\ \A i \in Requested(c) :
           LET score == Get(result[c].comments[i].score)
           IN IF Returned(c, i)
              THEN score.relevance = Some(Get(responses[c])[Get(preEval[c].comments[i].id)])
              ELSE /\ score.relevance = Some(16)
                   /\ score.reward = PreEvaluationReward(c, i)

\* C4's case: of two comments requested, with rewards, one id came back and
\* one did not; and somewhere the service returned the empty mapping.
MissingIdsDefaultToOneWitness ==
  /\ \E c \in Contributors :
       /\ FewerReturned(c)
       /\ \E i, j \in Requested(c) :
            /\ Returned(c, i) /\ ~Returned(c, j)
            /\ PreEvaluationReward(c, i) # 0 /\ PreEvaluationReward(c, j) # 0
  /\ \E c \in Contributors : FewerReturned(c) /\ DOMAIN Get(responses[c]) = {}

\* C5: when transform returns, every task it started has completed and the
\* contributor's comments are the task's scored sequence.
ReturnsAfterAllTasks ==
  pc = "returned" =>
    \A c \in Contributors :
      Len(preEval[c].comments) > 0 /\ HasSpecification =>
        /\ task[c] = "assigned"
        /\ result[c].comments = commentsWithScore[c]
        /\ \A i \in Indices(result[c].comments) :
             /\ result[c].comments[i].score # None
             /\ Get(result[c].comments[i].score).relevance # None

\* C5's case: transform returned after two tasks, one that called the service
\* and one that had nothing to evaluate.
ReturnsAfterAllTasksWitness ==
  /\ pc = "returned"
  /\ \A c \in Contributors : task[c] = "assigned"
  /\ \E c, d \in Contributors : responses[c] # None /\ requests[d] = None

RECURSIVE RemoveCommandLines(_, _)
\* The body without any line that starts with "/", the line's terminator kept.
RemoveCommandLines(s, atLineStart) ==
  IF s = <<>> THEN <<>>
  ELSE IF atLineStart /\ Head(s) = "/"
    THEN RemoveCommandLines(DropToLineEnd(s), FALSE)
    ELSE <<Head(s)>> \o RemoveCommandLines(Tail(s), IsLineTerminator(Head(s)))

\* The purged text with every command line removed, wherever it stands.
CommandFreeContent(body) ==
  Trim(SingleLine(RemoveCommandLines(RemoveQuotedLines(body, TRUE), TRUE)))

\* The raw comments of contributor c that have a body and whose text, purged
\* by `purge`, is not empty.
RawWithContent(c, purge(_)) ==
  SelectSeq(data.allComments,
    LAMBDA comment : /\ comment.user = Some(c)
                     /\ comment.body # None
                     /\ purge(Get(comment.body)) # <<>>)

\* The records the purge adds for contributor c when `purge` is the text's purge.
AddedBy(c, purge(_)) ==
  LET raw == RawWithContent(c, purge)
  IN [k \in Indices(raw) |->
        [id |-> None, content |-> purge(Get(raw[k].body)), url |-> raw[k].html_url,
         type |-> raw[k].type, score |-> None]]

\* C6: the purge removes in full every line that starts with "/", first or
\* not: the records added hold the command-free text, and a body of command
\* lines only adds none.
CommandLinesRemoved ==
  pc = "purged" =>
    \A c \in Contributors :
      result[c].comments = result0[c].comments \o AddedBy(c, CommandFreeContent)

\* C7: after the purge, each contributor's comments are the previous ones
\* followed by one record (content, url, type, no score) per raw comment, in
\* snapshot order, that has a body, this contributor as author and a purged
\* text that is not empty; nothing else is added and no key is added.
PurgeAppendsInOrder ==
  pc = "purged" =>
    /\ DOMAIN result = DOMAIN result0
    /\ \A c \in Contributors :
         result[c].comments = result0[c].comments \o AddedBy(c, NewContent)

\* C7's case: a purge that added two records to a contributor who had
\* comments, over a snapshot with a comment it dropped.
PurgeAppendsInOrderWitness ==
  /\ pc = "purged"
  /\ \E c \in Contributors :
       /\ Len(result0[c].comments) > 0
       /\ Len(result[c].comments) = Len(result0[c].comments) + 2
       /\ result[c].comments[Len(result[c].comments)].content #
            result[c].comments[Len(result[c].comments) - 1].content
  /\ \E k \in Indices(data.allComments) :
       \/ data.allComments[k].user = None
       \/ data.allComments[k].body = None
       \/ data.allComments[k].user = Some("eve")
       \/ /\ data.allComments[k].body # None
          /\ NewContent(Get(data.allComments[k].body)) = <<>>

\* The contents of the comments result holds when the evaluation starts.
PurgedContents ==
  UNION { {preEval[c].comments[i].content : i \in Indices(preEval[c].comments)} :
          c \in Contributors }

\* The snapshot's comment that has this id.
RawById(id) ==
  CHOOSE comment \in {data.allComments[k] : k \in Indices(data.allComments)} : comment.id = id

\* C8: every text sent to the service is purged content and never a raw
\* body: a corpus entry holds the purged text of the raw comment it stands
\* for, and a comment to evaluate holds the content of a comment of result.
OnlyPurgedContentSent ==
  \A c \in Contributors :
    requests[c] # None =>
      /\ \A k \in Indices(Get(requests[c]).allComments) :
           LET entry == Get(requests[c]).allComments[k]
           IN RawById(entry.id).body # None =>
                entry.comment = NewContent(Get(RawById(entry.id).body))
      /\ \A k \in Indices(Get(requests[c]).comments) :
           Get(requests[c]).comments[k].comment \in PurgedContents

\* C9: a raw comment that the purge turned into a record of contributor c,
\* the k-th it added, whose role is no key of the fixed table, is sent under
\* the raw comment's id, and a score returned under that id is the relevance
\* of that record.
ScoreReachesItsComment ==
  \A c \in Contributors :
    LET raw == RawWithContent(c, NewContent)
    IN \A k \in Indices(raw) :
         LET i == Len(result0[c].comments) + k
         IN raw[k].type \notin DOMAIN fixedRelevances /\ WasStarted(c) =>
              /\ requests[c] # None
              /\ \E sent \in SentComments(c) :
                   sent.id = Some(raw[k].id) /\ sent.comment = NewContent(Get(raw[k].body))
              /\ HasScored(c) /\ responses[c] # None /\ raw[k].id \in DOMAIN Get(responses[c]) =>
                   Get(result[c].comments[i].score).relevance =
                     Some(Get(responses[c])[raw[k].id])

\* C10: once transform has returned or rejected, result does not change.
NoWriteAfterSettled ==
  [][(pc \in {"returned", "rejected"}) => (result' = result)]_vars

============================================================================
